---- MODULE Spec2Model ----
(***************************************************************************)
(* minipool: an HTTP gateway in front of a bitcoin daemon's RPC interface. *)
(* The model covers the request pipeline of src/src/main.rs (router,       *)
(* handlers, spawn_blocking offload, error mapping) and the metrics        *)
(* middleware of src/src/metrics.rs.                                       *)
(*                                                                         *)
(* Text is modelled as sequences of one-character strings so that parsing  *)
(* and formatting are computed, not assumed.                               *)
(***************************************************************************)
EXTENDS Integers, Sequences, FiniteSets, TLC

(***************************************************************************)
(* Bounds of the model.                                                    *)
(***************************************************************************)
\* number of requests the server accepts in one behaviour
NumReq == 2
\* number of worker threads of the blocking pool
PoolSize == 1
\* height of the daemon's best block: it knows heights 0..TipHeight
TipHeight == 1
\* the daemon may lack an estimate for the NumDegradable + 1 longest targets
NumDegradable == 1

Reqs == 1..NumReq

(***************************************************************************)
(* Text helpers.                                                           *)
(***************************************************************************)
DecDigits == <<"0", "1", "2", "3", "4", "5", "6", "7", "8", "9">>
HexDigits == DecDigits \o <<"a", "b", "c", "d", "e", "f">>
UpperHex == <<"A", "B", "C", "D", "E", "F">>

Range(s) == {s[i] : i \in DOMAIN s}

\* u64::to_string / u16::to_string
RECURSIVE to_string(_)
to_string(n) ==
    IF n < 10 THEN <<DecDigits[n + 1]>>
    ELSE to_string(n \div 10) \o <<DecDigits[(n % 10) + 1]>>

DigitVal(c) == CHOOSE v \in 0..9 : DecDigits[v + 1] = c

HexVal(c) ==
    IF c \in Range(HexDigits)
    THEN CHOOSE v \in 0..15 : HexDigits[v + 1] = c
    ELSE 10 + CHOOSE v \in 0..5 : UpperHex[v + 1] = c

IsHexChar(c) == c \in Range(HexDigits) \cup Range(UpperHex)

(***************************************************************************)
(* Results: Ok(v) / Err(e), as Rust's Result.                              *)
(***************************************************************************)
Ok(v) == [ok |-> TRUE, val |-> v]
Err(e) == [ok |-> FALSE, err |-> e]
None == [none |-> TRUE]
Some(v) == [none |-> FALSE, val |-> v]

(***************************************************************************)
(* Path<u64>: the height segment parsed as an unsigned integer by the      *)
(* extractor (u64::from_str: an optional "+", then decimal digits, the     *)
(* value at most 2^64 - 1).  The overflow test compares digit strings, so  *)
(* that a number too large for u64 is never computed.                      *)
(***************************************************************************)
RECURSIVE DecValue(_)
DecValue(s) ==
    IF Len(s) = 0 THEN 0
    ELSE 10 * DecValue(SubSeq(s, 1, Len(s) - 1)) + DigitVal(s[Len(s)])

\* u64::MAX = 18446744073709551615, as digits
U64MaxDigits ==
    <<"1", "8", "4", "4", "6", "7", "4", "4", "0", "7",
      "3", "7", "0", "9", "5", "5", "1", "6", "1", "5">>

RECURSIVE StripZeros(_)
StripZeros(s) ==
    IF Len(s) > 1 /\ s[1] = "0" THEN StripZeros(Tail(s)) ELSE s

\* the digit string stands for a number above u64::MAX
ExceedsU64(digits) ==
    LET d == StripZeros(digits)
    IN \/ Len(d) > Len(U64MaxDigits)
       \/ /\ Len(d) = Len(U64MaxDigits)
          /\ \E i \in DOMAIN d :
                /\ DigitVal(d[i]) > DigitVal(U64MaxDigits[i])
                /\ \A j \in 1..(i - 1) : d[j] = U64MaxDigits[j]

ParseU64(s) ==
    LET digits == IF Len(s) > 0 /\ s[1] = "+" THEN Tail(s) ELSE s
    IN IF Len(digits) = 0 THEN Err("empty")
       ELSE IF \E i \in DOMAIN digits : digits[i] \notin Range(DecDigits)
       THEN Err("invalid digit")
       ELSE IF ExceedsU64(digits) THEN Err("number too large")
       ELSE Ok(DecValue(digits))

(***************************************************************************)
(* BlockHash: 32 bytes, written as 64 hex digits with the bytes reversed.  *)
(***************************************************************************)
HashBytes == 32
HashHexLen == 2 * HashBytes

\* BlockHash::from_str
BlockHashFromStr(s) ==
    IF Len(s) # HashHexLen THEN Err("bad hex string length")
    ELSE IF \E i \in DOMAIN s : ~IsHexChar(s[i]) THEN Err("bad hex character")
    ELSE Ok([i \in 1..HashBytes |->
                16 * HexVal(s[2 * (HashBytes - i) + 1])
                   + HexVal(s[2 * (HashBytes - i) + 2])])

\* BlockHash::to_string (Display): lower-case hex of the reversed bytes
BlockHashToString(h) ==
    [j \in 1..HashHexLen |->
        LET b == h[HashBytes - ((j - 1) \div 2)]
        IN IF j % 2 = 1 THEN HexDigits[(b \div 16) + 1] ELSE HexDigits[(b % 16) + 1]]

(***************************************************************************)
(* The remote daemon: an opaque blocking service.  It holds a chain of     *)
(* blocks 0..TipHeight; any call may also fail for another reason          *)
(* (transport, authentication, ...).                                       *)
(***************************************************************************)
\* hash of the block at height h (internal byte order)
ChainHash(h) == [i \in 1..HashBytes |-> IF i = 1 THEN 171 + h ELSE IF i = 2 THEN 205 ELSE 0]
\* serialized block at height h, as the daemon's hex string
ChainHex(h) == <<"0", "1", "0", "0", HexDigits[(h \div 16) + 1], HexDigits[(h % 16) + 1]>>
\* a well-formed hash of no block of the chain
UnknownHash == [i \in 1..HashBytes |-> IF i = 1 THEN 255 ELSE 0]

KnownHeights == 0..TipHeight

\* error kinds of bitcoincore_rpc::Error, as far as the gateway can tell them apart
RpcNotFound == "NotFound"
RpcOther == "Transport"

\* fee rate the daemon estimates for a target, in satoshi per kvB: lower for
\* longer horizons
DaemonFeeRateSat(blocks) == 20000 - blocks

\* confirmation targets for fee estimation
CONFIRMATION_TARGETS ==
    <<1, 2, 3, 4, 5, 6, 7, 8, 9, 10, 11, 12, 13, 14, 15, 16, 17, 18, 19, 20,
      21, 22, 23, 24, 25, 144, 504, 1008>>

NumTargets == Len(CONFIRMATION_TARGETS)
TargetSet == Range(CONFIRMATION_TARGETS)
\* the targets the daemon may have no estimate for: the longest horizons,
\* NumDegradable + 1 of them
DegradableTargets ==
    {CONFIRMATION_TARGETS[i] : i \in {j \in 1..NumTargets : j >= NumTargets - NumDegradable}}

\* the answers the daemon can give to one call; estimate_smart_fee answers an
\* estimate, no estimate (for the targets it may lack data for), or fails
DaemonAnswers(call) ==
    CASE call.op = "get_block_count" ->
            {Ok(TipHeight), Err(RpcOther)}
      [] call.op = "get_block_hash" ->
            {IF call.arg \in KnownHeights THEN Ok(ChainHash(call.arg)) ELSE Err(RpcNotFound),
             Err(RpcOther)}
      [] call.op = "get_block_hex" ->
            {IF \E h \in KnownHeights : ChainHash(h) = call.arg
             THEN Ok(ChainHex(CHOOSE h \in KnownHeights : ChainHash(h) = call.arg))
             ELSE Err(RpcNotFound),
             Err(RpcOther)}
      [] call.op = "estimate_smart_fee" ->
            {Ok([fee_rate |-> Some(DaemonFeeRateSat(call.arg))]), Err(RpcOther)}
            \cup (IF call.arg \in DegradableTargets THEN {Ok([fee_rate |-> None])} ELSE {})

(***************************************************************************)
(* The route table of start_main_server.  A segment that starts with "{"   *)
(* is a parameter and matches any non-empty segment.                       *)
(***************************************************************************)
S_api == <<"a", "p", "i">>
S_blocks == <<"b", "l", "o", "c", "k", "s">>
S_tip == <<"t", "i", "p">>
S_height == <<"h", "e", "i", "g", "h", "t">>
S_block_height == <<"b", "l", "o", "c", "k", "-", "h", "e", "i", "g", "h", "t">>
S_fee_estimates == <<"f", "e", "e", "-", "e", "s", "t", "i", "m", "a", "t", "e", "s">>
S_block == <<"b", "l", "o", "c", "k">>
S_raw == <<"r", "a", "w">>
P_height == <<"{", "h", "e", "i", "g", "h", "t", "}">>
P_hash == <<"{", "h", "a", "s", "h", "}">>

Routes ==
    << [path |-> "/", segs |-> <<>>, handler |-> "index"],
       [path |-> "/api/blocks/tip/height",
        segs |-> <<S_api, S_blocks, S_tip, S_height>>, handler |-> "get_tip_height"],
       [path |-> "/api/block-height/{height}",
        segs |-> <<S_api, S_block_height, P_height>>, handler |-> "get_block_by_height"],
       [path |-> "/api/fee-estimates",
        segs |-> <<S_api, S_fee_estimates>>, handler |-> "get_fee_estimates"],
       [path |-> "/api/block/{hash}/raw",
        segs |-> <<S_api, S_block, P_hash, S_raw>>, handler |-> "get_block_raw"] >>

NoRoute == 0

IsParam(seg) == Len(seg) > 0 /\ seg[1] = "{"

SegsMatch(tmpl, segs) ==
    /\ Len(tmpl) = Len(segs)
    /\ \A i \in DOMAIN tmpl :
          IF IsParam(tmpl[i]) THEN Len(segs[i]) > 0 ELSE tmpl[i] = segs[i]

\* the router: the index of the route the path resolves against, or NoRoute
MatchRoute(segs) ==
    IF \E i \in DOMAIN Routes : SegsMatch(Routes[i].segs, segs)
    THEN CHOOSE i \in DOMAIN Routes :
            /\ SegsMatch(Routes[i].segs, segs)
            /\ \A j \in DOMAIN Routes : SegsMatch(Routes[j].segs, segs) => i <= j
    ELSE NoRoute

HandlerOf(route) == IF route = NoRoute THEN "fallback" ELSE Routes[route].handler

\* the value of the path parameter of a matched request
PathParam(route, segs) ==
    segs[CHOOSE i \in DOMAIN segs : IsParam(Routes[route].segs[i])]

(***************************************************************************)
(* The requests clients send.                                              *)
(***************************************************************************)
S_nope == <<"n", "o", "p", "e">>
KnownHashStr == BlockHashToString(ChainHash(TipHeight))

RequestPaths ==
    { <<>>,
      <<S_api, S_blocks, S_tip, S_height>>,
      <<S_api, S_fee_estimates>>,
      <<S_nope>> }
    \cup { <<S_api, S_block_height, to_string(h)>> : h \in 0..(TipHeight + 1) }
    \cup { <<S_api, S_block_height, <<"x">> >> }
    \cup { <<S_api, S_block, s, S_raw>> :
              s \in { KnownHashStr,
                      BlockHashToString(UnknownHash),
                      Tail(KnownHashStr),
                      <<"z", "z", "z">> } }

TipHeightPath == <<S_api, S_blocks, S_tip, S_height>>

\* every path is requested with GET; POST is tried on a route and on no route
RequestInputs ==
    {[method |-> "GET", path |-> p] : p \in RequestPaths}
    \cup {[method |-> "POST", path |-> p] : p \in {TipHeightPath, <<S_nope>>}}

(***************************************************************************)
(* State.                                                                  *)
(*   req[r]     the request r and the position of its task                 *)
(*   queue      units handed to spawn_blocking, waiting for a worker       *)
(*   counter    http_requests_total, by label tuple                        *)
(*   histogram  http_requests_duration_seconds: observations by label      *)
(***************************************************************************)
VARIABLES req, queue, counter, histogram

vars == <<req, queue, counter, histogram>>

NewRequest ==
    [ pc        |-> "new",      \* new, routed, in_mw, awaiting, responded, done
      method    |-> "",
      path      |-> <<>>,
      route     |-> NoRoute,
      mw        |-> None,       \* the frame of track_metrics once it has taken
                                \* its start: the method and the path label
      unit      |-> "none",     \* none, queued, running, finished, panicked
      call      |-> None,       \* the RPC call in flight
      rpcLog    |-> <<>>,       \* the RPC calls issued, in order
      answers   |-> <<>>,       \* the daemon's answers to them, in order
      estimates |-> <<>>,       \* fee estimates collected so far
      join      |-> None,       \* what the JoinHandle resolves to
      resp      |-> None ]      \* the response, once produced

Init ==
    /\ req = [r \in Reqs |-> NewRequest]
    /\ queue = <<>>
    /\ counter = <<>>
    /\ histogram = <<>>

Running == {r \in Reqs : req[r].unit = "running"}

(***************************************************************************)
(* Responses.                                                              *)
(***************************************************************************)
Response(status, kind, body) == [status |-> status, kind |-> kind, body |-> body]

OK == 200
TEMPORARY_REDIRECT == 307
BAD_REQUEST == 400
NOT_FOUND == 404
METHOD_NOT_ALLOWED == 405
INTERNAL_SERVER_ERROR == 500

RpcErrorResponse == Response(INTERNAL_SERVER_ERROR, "text", "RPC error")
BlockNotFoundResponse == Response(NOT_FOUND, "text", "Block not found")

\* get_tip_height passing an RPC error on as a gateway error of its own
TipHeightResponseBadGateway(join) ==
    IF join.ok
    THEN IF join.val.ok
         THEN Response(OK, "decimal", to_string(join.val.val))
         ELSE Response(502, "text", join.val.err)
    ELSE Response(INTERNAL_SERVER_ERROR, "text", "RPC error")

\* get_tip_height, after the await
TipHeightResponse(join) ==
    IF join.ok
    THEN IF join.val.ok
         THEN Response(OK, "decimal", to_string(join.val.val))
         ELSE RpcErrorResponse
    ELSE RpcErrorResponse

\* a block hash written in its internal byte order, without the reversal
BlockHashToStringForward(h) ==
    [j \in 1..HashHexLen |->
        LET b == h[((j - 1) \div 2) + 1]
        IN IF j % 2 = 1 THEN HexDigits[(b \div 16) + 1] ELSE HexDigits[(b % 16) + 1]]

\* get_block_by_height answering the hash in its internal byte order
BlockByHeightResponseForward(join) ==
    IF join.ok
    THEN IF join.val.ok
         THEN Response(OK, "hash", BlockHashToStringForward(join.val.val))
         ELSE Response(NOT_FOUND, "text", "Block not found")
    ELSE Response(INTERNAL_SERVER_ERROR, "text", "RPC error")

\* get_block_by_height with an RPC error answered as get_tip_height answers it
BlockByHeightResponseAll500(join) ==
    IF join.ok /\ join.val.ok
    THEN Response(OK, "hash", BlockHashToString(join.val.val))
    ELSE RpcErrorResponse

\* get_block_by_height, after the await: every RPC error is answered 404
BlockByHeightResponse(join) ==
    IF join.ok
    THEN IF join.val.ok
         THEN Response(OK, "hash", BlockHashToString(join.val.val))
         ELSE BlockNotFoundResponse
    ELSE RpcErrorResponse

\* get_fee_estimates, after the await
FeeEstimatesResponse(join) ==
    IF join.ok
    THEN IF join.val.ok
         THEN Response(OK, "json", join.val.val)
         ELSE RpcErrorResponse
    ELSE RpcErrorResponse

\* get_block_raw, after the await: every RPC error is answered 404
BlockRawResponse(join) ==
    IF join.ok
    THEN IF join.val.ok
         THEN Response(OK, "hex", join.val.val)
         ELSE BlockNotFoundResponse
    ELSE RpcErrorResponse

HandlerResponse(handler, join) ==
    CASE handler = "get_tip_height" -> TipHeightResponse(join)
      [] handler = "get_block_by_height" -> BlockByHeightResponse(join)
      [] handler = "get_fee_estimates" -> FeeEstimatesResponse(join)
      [] handler = "get_block_raw" -> BlockRawResponse(join)

(***************************************************************************)
(* The HTTP side: accept, route, middleware, handlers.                     *)
(***************************************************************************)
\* a request arrives and the router resolves its path; requests are numbered
\* in the order they arrive
Accept(r, method, path) ==
    /\ req[r].pc = "new"
    /\ r > 1 => req[r - 1].pc # "new"
    /\ req' = [req EXCEPT ![r].pc = "routed",
                          ![r].method = method,
                          ![r].path = path,
                          ![r].route = MatchRoute(path)]
    /\ UNCHANGED <<queue, counter, histogram>>

\* Router::layer in place of route_layer: the middleware wraps the fallback too
LayerApplies(route) == route = route

\* route_layer: the middleware is applied to the routes, not to the fallback
RouteLayerApplies(route) == route # NoRoute

\* a path label taken from the request URI whether or not a route matched
MetricsPathRaw(route, path) == [raw |-> path]

\* the path label of track_metrics: the matched route template, else the raw path
MetricsPath(route, path) ==
    IF route # NoRoute THEN [template |-> Routes[route].path] ELSE [raw |-> path]

\* track_metrics up to next.run(req)
TrackMetricsStart(r) ==
    /\ req[r].pc = "routed"
    /\ RouteLayerApplies(req[r].route)
    /\ req' = [req EXCEPT ![r].pc = "in_mw",
                          ![r].mw = [method |-> req[r].method,
                                     path |-> MetricsPath(req[r].route, req[r].path)]]
    /\ UNCHANGED <<queue, counter, histogram>>

\* the request has reached its route's method router, or the fallback
AtInner(r) ==
    \/ req[r].pc = "in_mw"
    \/ req[r].pc = "routed" /\ ~RouteLayerApplies(req[r].route)

Respond(r, response) ==
    req' = [req EXCEPT ![r].pc = "responded", ![r].resp = response]

\* tokio::task::spawn_blocking(..).await: the unit is queued, the task suspends
SpawnBlocking(r) ==
    /\ req' = [req EXCEPT ![r].pc = "awaiting", ![r].unit = "queued"]
    /\ queue' = Append(queue, r)

\* routes are registered with get(..): it serves GET and HEAD only
MethodAllowed(method) == method \in {"GET", "HEAD"}

MethodNotAllowed(r) ==
    /\ AtInner(r)
    /\ req[r].route # NoRoute
    /\ ~MethodAllowed(req[r].method)
    /\ Respond(r, Response(METHOD_NOT_ALLOWED, "empty", ""))
    /\ UNCHANGED <<queue, counter, histogram>>

Handles(r, handler) ==
    /\ AtInner(r)
    /\ HandlerOf(req[r].route) = handler
    /\ req[r].route # NoRoute => MethodAllowed(req[r].method)

index(r) ==
    /\ Handles(r, "index")
    /\ Respond(r, Response(OK, "html", [i \in 2..Len(Routes) |-> Routes[i].path]))
    /\ UNCHANGED <<queue, counter, histogram>>

\* a fallback that answers 404 instead of redirecting
fallback_not_found(r) ==
    /\ Handles(r, "fallback")
    /\ Respond(r, Response(NOT_FOUND, "empty", ""))
    /\ UNCHANGED <<queue, counter, histogram>>

fallback(r) ==
    /\ Handles(r, "fallback")
    /\ Respond(r, Response(TEMPORARY_REDIRECT, "location", "/"))
    /\ UNCHANGED <<queue, counter, histogram>>

\* get_tip_height calling the daemon on the request's own task, with no
\* spawn_blocking around the call
get_tip_height_inline(r) ==
    /\ Handles(r, "get_tip_height")
    /\ req' = [req EXCEPT ![r].pc = "awaiting",
                          ![r].call = [op |-> "get_block_count", arg |-> 0],
                          ![r].rpcLog = Append(@, [op |-> "get_block_count", arg |-> 0])]
    /\ UNCHANGED <<queue, counter, histogram>>

get_tip_height(r) ==
    /\ Handles(r, "get_tip_height")
    /\ SpawnBlocking(r)
    /\ UNCHANGED <<counter, histogram>>

\* a height segment that is no u64 answered as a path that leads nowhere
get_block_by_height_lenient(r) ==
    /\ Handles(r, "get_block_by_height")
    /\ IF ParseU64(PathParam(req[r].route, req[r].path)).ok
       THEN SpawnBlocking(r)
       ELSE /\ Respond(r, Response(NOT_FOUND, "text", "Block not found"))
            /\ UNCHANGED queue
    /\ UNCHANGED <<counter, histogram>>

\* Path<u64>: a segment that is no u64 is rejected by the extractor
get_block_by_height(r) ==
    /\ Handles(r, "get_block_by_height")
    /\ IF ParseU64(PathParam(req[r].route, req[r].path)).ok
       THEN SpawnBlocking(r)
       ELSE /\ Respond(r, Response(BAD_REQUEST, "text", "Invalid URL"))
            /\ UNCHANGED queue
    /\ UNCHANGED <<counter, histogram>>

get_fee_estimates(r) ==
    /\ Handles(r, "get_fee_estimates")
    /\ SpawnBlocking(r)
    /\ UNCHANGED <<counter, histogram>>

\* get_block_raw handing the hash to the unit without looking at the parse
get_block_raw_unchecked(r) ==
    /\ Handles(r, "get_block_raw")
    /\ SpawnBlocking(r)
    /\ UNCHANGED <<counter, histogram>>

get_block_raw(r) ==
    /\ Handles(r, "get_block_raw")
    /\ IF BlockHashFromStr(PathParam(req[r].route, req[r].path)).ok
       THEN SpawnBlocking(r)
       ELSE /\ Respond(r, Response(BAD_REQUEST, "text", "Invalid block hash"))
            /\ UNCHANGED queue
    /\ UNCHANGED <<counter, histogram>>

\* an await with a deadline (tokio::time::timeout around the JoinHandle): when
\* the unit has not completed the handler gives up and answers 500
JoinResumeTimeout(r) ==
    /\ req[r].pc = "awaiting"
    /\ Respond(r, IF req[r].join # None
                  THEN HandlerResponse(HandlerOf(req[r].route), req[r].join)
                  ELSE RpcErrorResponse)
    /\ UNCHANGED <<queue, counter, histogram>>

\* the JoinHandle resolves and the handler maps the outcome to a response
JoinResume(r) ==
    /\ req[r].pc = "awaiting"
    /\ req[r].join # None
    /\ Respond(r, HandlerResponse(HandlerOf(req[r].route), req[r].join))
    /\ UNCHANGED <<queue, counter, histogram>>

\* labels whose status is not read from the response
LabelsStatusOk(mw, response) ==
    [method |-> mw.method, path |-> mw.path, status |-> to_string(OK)]

Labels(mw, response) ==
    [method |-> mw.method, path |-> mw.path, status |-> to_string(response.status)]

\* an increment that is not atomic: it writes 1 over what another request wrote
IncrementLost(c, labels) ==
    [l \in DOMAIN c \cup {labels} |-> IF l = labels THEN 1 ELSE c[l]]

Increment(c, labels) ==
    [l \in DOMAIN c \cup {labels} |->
        IF l \in DOMAIN c THEN IF l = labels THEN c[l] + 1 ELSE c[l] ELSE 1]

\* the response leaves the server and the request's task ends: its locals are
\* dropped; what is kept of the request is its method, its route, whether the
\* middleware ran, and the status sent
Returned(q) ==
    [NewRequest EXCEPT !.pc = "done", !.method = q.method, !.route = q.route,
                       !.mw = q.mw, !.resp = Response(q.resp.status, "sent", "")]

\* track_metrics after next.run(req): count, observe, hand the response on
TrackMetricsFinish(r) ==
    /\ req[r].pc = "responded"
    /\ req[r].mw # None
    /\ counter' = Increment(counter, Labels(req[r].mw, req[r].resp))
    /\ histogram' = Increment(histogram, Labels(req[r].mw, req[r].resp))
    /\ req' = [req EXCEPT ![r] = Returned(req[r])]
    /\ UNCHANGED queue

\* a response produced outside the middleware goes straight to the client
ReturnDirect(r) ==
    /\ req[r].pc = "responded"
    /\ req[r].mw = None
    /\ req' = [req EXCEPT ![r] = Returned(req[r])]
    /\ UNCHANGED <<queue, counter, histogram>>

(***************************************************************************)
(* The blocking pool: the units run the RPC calls.                         *)
(***************************************************************************)
\* a worker thread takes the oldest queued unit
WorkerStart(r) ==
    /\ queue # <<>>
    /\ Head(queue) = r
    /\ Cardinality(Running) < PoolSize
    /\ queue' = Tail(queue)
    /\ req' = [req EXCEPT ![r].unit = "running"]
    /\ UNCHANGED <<counter, histogram>>

RpcCallOf(op, arg) == [op |-> op, arg |-> arg]

\* the call the closure of the handler makes next
NextCall(q) ==
    LET handler == HandlerOf(q.route)
    IN CASE handler = "get_tip_height" -> RpcCallOf("get_block_count", 0)
         [] handler = "get_block_by_height" ->
                RpcCallOf("get_block_hash", ParseU64(PathParam(q.route, q.path)).val)
         [] handler = "get_block_raw" ->
                RpcCallOf("get_block_hex", BlockHashFromStr(PathParam(q.route, q.path)).val)
         [] handler = "get_fee_estimates" ->
                RpcCallOf("estimate_smart_fee", CONFIRMATION_TARGETS[Len(q.rpcLog) + 1])

\* the unit issues a blocking call to the daemon
RpcCall(r) ==
    /\ req[r].unit = "running"
    /\ req[r].call = None
    /\ req' = [req EXCEPT ![r].call = NextCall(req[r]),
                          ![r].rpcLog = Append(@, NextCall(req[r]))]
    /\ UNCHANGED <<queue, counter, histogram>>

\* a decimal number: mantissa * 10^exponent
Decimal(mantissa, exponent) == [mantissa |-> mantissa, exponent |-> exponent]

\* the default of get_fee_rate_blocking: 0.0001
FallbackFeeRate == Decimal(1, -4)

\* Amount::to_btc: an amount in satoshi as a number of BTC
to_btc(sat) == Decimal(sat, -8)

\* an adapter that fails when the daemon has no estimate
get_fee_rate_blocking_strict(answer) ==
    IF ~answer.ok THEN Err(answer.err)
    ELSE IF answer.val.fee_rate.none THEN Err("no estimate")
    ELSE Ok(to_btc(answer.val.fee_rate.val))

get_fee_rate_blocking(answer) ==
    IF ~answer.ok THEN Err(answer.err)
    ELSE Ok(IF answer.val.fee_rate.none
            THEN FallbackFeeRate
            ELSE to_btc(answer.val.fee_rate.val))

\* BTreeMap::insert
Insert(map, key, value) ==
    [k \in DOMAIN map \cup {key} |-> IF k = key THEN value ELSE map[k]]

\* a closure that stops at the first failed target and returns what it has
\* collected so far (take_while in place of collect's short circuit)
FeeEstimatesStepPartial(q, blocks, answer) ==
    LET rate == get_fee_rate_blocking(answer)
        collected == IF rate.ok THEN Insert(q.estimates, to_string(blocks), rate.val)
                     ELSE q.estimates
        answered == [q EXCEPT !.call = None, !.answers = Append(@, answer)]
    IN IF ~rate.ok \/ Len(q.rpcLog) = NumTargets
       THEN [answered EXCEPT !.unit = "finished", !.estimates = <<>>,
                             !.join = Ok(Ok(collected))]
       ELSE [answered EXCEPT !.estimates = collected]

\* a closure that calls every target before it looks at the results (the
\* results collected into a Vec first): after a failed call it goes on to the
\* next target, and fails at the end
FeeEstimatesStepEager(q, blocks, answer) ==
    LET rate == get_fee_rate_blocking(answer)
        collected == IF rate.ok THEN Insert(q.estimates, to_string(blocks), rate.val)
                     ELSE q.estimates
        answered == [q EXCEPT !.call = None, !.answers = Append(@, answer)]
        failed == {i \in DOMAIN answered.answers : ~answered.answers[i].ok}
    IN IF Len(q.rpcLog) < NumTargets
       THEN [answered EXCEPT !.estimates = collected]
       ELSE [answered EXCEPT !.unit = "finished", !.estimates = <<>>,
                             !.join = IF failed = {} THEN Ok(Ok(collected))
                                      ELSE Ok(Err(RpcOther))]

\* the closure of get_fee_estimates after the answer to the call for `blocks`:
\* collect() stops at the first error, and ends after the last target
FeeEstimatesStep(q, blocks, answer) ==
    LET rate == get_fee_rate_blocking(answer)
        collected == Insert(q.estimates, to_string(blocks), rate.val)
        answered == [q EXCEPT !.call = None, !.answers = Append(@, answer)]
    IN IF ~rate.ok
       THEN [answered EXCEPT !.unit = "finished", !.estimates = <<>>,
                             !.join = Ok(Err(rate.err))]
       ELSE IF Len(q.rpcLog) = NumTargets
       THEN [answered EXCEPT !.unit = "finished", !.estimates = <<>>,
                             !.join = Ok(Ok(collected))]
       ELSE [answered EXCEPT !.estimates = collected]

\* a closure that calls again when the call failed
SingleCallStepRetry(q, answer) ==
    IF answer.ok
    THEN [q EXCEPT !.call = None, !.answers = Append(@, answer),
                   !.unit = "finished", !.join = Ok(answer)]
    ELSE [q EXCEPT !.call = None, !.answers = Append(@, answer)]

\* the closures of the other handlers return what their one call returned
SingleCallStep(q, answer) ==
    [q EXCEPT !.call = None, !.answers = Append(@, answer),
              !.unit = "finished", !.join = Ok(answer)]

\* a fee-estimates handler that offloads each call as a unit of its own: when
\* a call has answered and targets remain, the unit ends and the next one is
\* handed to spawn_blocking
RpcReturnRespawn(r) ==
    /\ req[r].call # None
    /\ \E answer \in DaemonAnswers(req[r].call) :
          LET after == IF req[r].call.op = "estimate_smart_fee"
                       THEN FeeEstimatesStep(req[r], req[r].call.arg, answer)
                       ELSE SingleCallStep(req[r], answer)
          IN IF after.unit = "running"
             THEN /\ req' = [req EXCEPT ![r] = [after EXCEPT !.unit = "queued"]]
                  /\ queue' = Append(queue, r)
             ELSE /\ req' = [req EXCEPT ![r] = after]
                  /\ UNCHANGED queue
    /\ UNCHANGED <<counter, histogram>>

\* the daemon answers the call in flight
RpcReturn(r) ==
    /\ req[r].call # None
    /\ \E answer \in DaemonAnswers(req[r].call) :
          req' = [req EXCEPT ![r] =
                     IF req[r].call.op = "estimate_smart_fee"
                     THEN FeeEstimatesStep(req[r], req[r].call.arg, answer)
                     ELSE SingleCallStep(req[r], answer)]
    /\ UNCHANGED <<queue, counter, histogram>>

\* a unit that dies without its JoinHandle ever resolving
UnitPanicHang(r) ==
    /\ req[r].unit = "running"
    /\ req[r].call # None
    /\ req' = [req EXCEPT ![r].call = None, ![r].unit = "panicked",
                          ![r].estimates = <<>>]
    /\ UNCHANGED <<queue, counter, histogram>>

\* the unit fails to complete: the JoinHandle resolves to a JoinError.  The
\* closures consist of their RPC calls, so a panic unwinds out of a call.
UnitPanic(r) ==
    /\ req[r].unit = "running"
    /\ req[r].call # None
    /\ req' = [req EXCEPT ![r].call = None, ![r].unit = "panicked",
                          ![r].estimates = <<>>, ![r].join = Err("JoinError")]
    /\ UNCHANGED <<queue, counter, histogram>>

(***************************************************************************)
(* Specification.                                                          *)
(***************************************************************************)
Next ==
    \E r \in Reqs :
        \/ \E in \in RequestInputs : Accept(r, in.method, in.path)
        \/ TrackMetricsStart(r)
        \/ MethodNotAllowed(r)
        \/ index(r)
        \/ fallback(r)
        \/ get_tip_height(r)
        \/ get_block_by_height(r)
        \/ get_fee_estimates(r)
        \/ get_block_raw(r)
        \/ WorkerStart(r)
        \/ RpcCall(r)
        \/ RpcReturn(r)
        \/ UnitPanic(r)
        \/ JoinResume(r)
        \/ TrackMetricsFinish(r)
        \/ ReturnDirect(r)

Spec == Init /\ [][Next]_vars

\* NumReq concurrent requests, all of them GET /api/blocks/tip/height
NextTipHeight ==
    \E r \in Reqs :
        \/ Accept(r, "GET", TipHeightPath)
        \/ TrackMetricsStart(r)
        \/ get_tip_height(r)
        \/ WorkerStart(r)
        \/ RpcCall(r)
        \/ RpcReturn(r)
        \/ UnitPanic(r)
        \/ JoinResume(r)
        \/ TrackMetricsFinish(r)

SpecTipHeight == Init /\ [][NextTipHeight]_vars

\* a client that sends its requests one after the other: the next request
\* arrives once the response to the one before has been returned
AcceptNext(r, method, path) ==
    /\ \A q \in Reqs : q < r => req[q].pc = "done"
    /\ Accept(r, method, path)

NextSequential ==
    \E r \in Reqs :
        \/ \E in \in RequestInputs : AcceptNext(r, in.method, in.path)
        \/ TrackMetricsStart(r)
        \/ MethodNotAllowed(r)
        \/ index(r)
        \/ fallback(r)
        \/ get_tip_height(r)
        \/ get_block_by_height(r)
        \/ get_fee_estimates(r)
        \/ get_block_raw(r)
        \/ WorkerStart(r)
        \/ RpcCall(r)
        \/ RpcReturn(r)
        \/ UnitPanic(r)
        \/ JoinResume(r)
        \/ TrackMetricsFinish(r)
        \/ ReturnDirect(r)

SpecSequential == Init /\ [][NextSequential]_vars

\* a client that asks for block hashes by height and for raw blocks by hash:
\* every height up to one past the tip, the identifier of every block of the
\* chain, and an identifier of no block.  It sends a request once the handlers
\* have produced the responses to the requests before, which may still be on
\* their way out through the middleware.
RoundTripInputs ==
    {[method |-> "GET", path |-> <<S_api, S_block_height, to_string(h)>>] :
        h \in 0..(TipHeight + 1)}
    \cup {[method |-> "GET", path |-> <<S_api, S_block, BlockHashToString(ChainHash(h)), S_raw>>] :
             h \in KnownHeights}
    \cup {[method |-> "GET", path |-> <<S_api, S_block, BlockHashToString(UnknownHash), S_raw>>]}

AcceptPipelined(r, method, path) ==
    /\ \A q \in Reqs : q < r => req[q].pc \in {"responded", "done"}
    /\ Accept(r, method, path)

NextRoundTrip ==
    \E r \in Reqs :
        \/ \E in \in RoundTripInputs : AcceptPipelined(r, in.method, in.path)
        \/ TrackMetricsStart(r)
        \/ get_block_by_height(r)
        \/ get_block_raw(r)
        \/ WorkerStart(r)
        \/ RpcCall(r)
        \/ RpcReturn(r)
        \/ UnitPanic(r)
        \/ JoinResume(r)
        \/ TrackMetricsFinish(r)

SpecRoundTrip == Init /\ [][NextRoundTrip]_vars

\* 2^64, the least number that is no u64
U64Overflow ==
    <<"1", "8", "4", "4", "6", "7", "4", "4", "0", "7",
      "3", "7", "0", "9", "5", "5", "1", "6", "1", "6">>

\* height segments a client may send: heights up to one past the tip, and
\* texts around the edges of u64::from_str
HeightSegments ==
    {to_string(h) : h \in 0..(TipHeight + 1)}
    \cup { <<"x">>, <<"-", "1">>, <<"+", "1">>, <<"0", "0">>, <<"1", ".", "0">>,
           <<"+">>, U64Overflow }

\* a client that asks for block hashes by height, one request after the other
NextBlockByHeight ==
    \E r \in Reqs :
        \/ \E seg \in HeightSegments : AcceptNext(r, "GET", <<S_api, S_block_height, seg>>)
        \/ TrackMetricsStart(r)
        \/ get_block_by_height(r)
        \/ WorkerStart(r)
        \/ RpcCall(r)
        \/ RpcReturn(r)
        \/ UnitPanic(r)
        \/ JoinResume(r)
        \/ TrackMetricsFinish(r)

SpecBlockByHeight == Init /\ [][NextBlockByHeight]_vars

FeeEstimatesPath == <<S_api, S_fee_estimates>>

\* concurrent requests that each offload a unit: tip-height requests, and a
\* fee-estimates request as the first of them
NextOffload ==
    \E r \in Reqs :
        \/ Accept(r, "GET", TipHeightPath)
        \/ r = 1 /\ Accept(r, "GET", FeeEstimatesPath)
        \/ TrackMetricsStart(r)
        \/ get_tip_height(r)
        \/ get_fee_estimates(r)
        \/ WorkerStart(r)
        \/ RpcCall(r)
        \/ RpcReturn(r)
        \/ UnitPanic(r)
        \/ JoinResume(r)
        \/ TrackMetricsFinish(r)

SpecOffload == Init /\ [][NextOffload]_vars

\* concurrent requests of three kinds: tip height, fee estimates (as the first
\* request), and a path that matches no route
NextLive ==
    \E r \in Reqs :
        \/ Accept(r, "GET", TipHeightPath)
        \/ r = 1 /\ Accept(r, "GET", FeeEstimatesPath)
        \/ Accept(r, "GET", <<S_nope>>)
        \/ TrackMetricsStart(r)
        \/ fallback(r)
        \/ get_tip_height(r)
        \/ get_fee_estimates(r)
        \/ WorkerStart(r)
        \/ RpcCall(r)
        \/ RpcReturn(r)
        \/ UnitPanic(r)
        \/ JoinResume(r)
        \/ TrackMetricsFinish(r)
        \/ ReturnDirect(r)

\* the steps of request r's task in NextLive
LiveTaskStep(r) ==
    \/ TrackMetricsStart(r)
    \/ fallback(r)
    \/ get_tip_height(r)
    \/ get_fee_estimates(r)
    \/ JoinResume(r)
    \/ TrackMetricsFinish(r)
    \/ ReturnDirect(r)

\* the runtime polls a task that is ready
TaskFairness == \A r \in Reqs : WF_vars(LiveTaskStep(r))

\* the blocking pool gives a free worker to the oldest queued unit, and a
\* unit on a worker runs
PoolFairness == \A r \in Reqs : WF_vars(WorkerStart(r)) /\ WF_vars(RpcCall(r))

\* every call issued to the daemon returns, with a value or an error
DaemonFairness == \A r \in Reqs : WF_vars(RpcReturn(r))

SpecLive ==
    /\ Init
    /\ [][NextLive]_vars
    /\ TaskFairness
    /\ PoolFairness
    /\ DaemonFairness

(***************************************************************************)
(* Vocabulary of the properties.                                           *)
(***************************************************************************)
Done == {r \in Reqs : req[r].pc = "done"}
Responded == {r \in Reqs : req[r].pc = "responded"}

\* the requests a handler has produced a response for, not yet returned
RespondedBy(handler) ==
    {r \in Responded : HandlerOf(req[r].route) = handler /\ MethodAllowed(req[r].method)}

RECURSIVE SumOver(_, _)
SumOver(c, S) ==
    IF S = {} THEN 0
    ELSE LET l == CHOOSE x \in S : TRUE IN c[l] + SumOver(c, S \ {l})

\* the number of observations a metric holds, over all label tuples
Total(c) == SumOver(c, DOMAIN c)

\* the number of observations a metric holds for one label tuple
Count(c, labels) == IF labels \in DOMAIN c THEN c[labels] ELSE 0

\* the label tuples of the responses returned through the middleware
DoneLabels == {Labels(req[r].mw, req[r].resp) : r \in {d \in Done : req[d].mw # None}}

RpcHandlers == {"get_tip_height", "get_block_by_height", "get_fee_estimates", "get_block_raw"}

\* the request's unit completed and its RPC layer reported error e
RpcFailedWith(r, e) ==
    /\ req[r].join # None
    /\ req[r].join.ok
    /\ ~req[r].join.val.ok
    /\ req[r].join.val.err = e

\* the request's unit did not complete
UnitFailed(r) == req[r].join # None /\ ~req[r].join.ok

(***************************************************************************)
(* C2 as stated: in every RPC-calling handler an RPC error other than      *)
(* NotFound yields 500 and a unit that fails to complete yields 500;       *)
(* block-by-height and raw-block answer 404 only when the daemon reports   *)
(* NotFound.                                                               *)
(***************************************************************************)
C2_OtherRpcErrorsAre500 ==
    \A h \in RpcHandlers : \A r \in RespondedBy(h) :
        /\ RpcFailedWith(r, RpcOther) => req[r].resp.status = INTERNAL_SERVER_ERROR
        /\ UnitFailed(r) => req[r].resp.status = INTERNAL_SERVER_ERROR
        /\ req[r].resp.status = NOT_FOUND => RpcFailedWith(r, RpcNotFound)

(***************************************************************************)
(* C3: when the daemon reports that the height (block-by-height) or the    *)
(* hash (raw-block) does not exist and the unit completes, the response is *)
(* 404 with body "Block not found".                                        *)
(***************************************************************************)
C3_NotFoundIs404 ==
    \A h \in {"get_block_by_height", "get_block_raw"} : \A r \in RespondedBy(h) :
        RpcFailedWith(r, RpcNotFound) =>
            /\ req[r].resp.status = NOT_FOUND
            /\ req[r].resp.kind = "text"
            /\ req[r].resp.body = "Block not found"

\* a raw-block request has been answered 404 and returned, and a
\* block-by-height request has its 404 for a NotFound of the daemon
C3_Witness ==
    /\ \E r \in Done :
          /\ HandlerOf(req[r].route) = "get_block_raw"
          /\ req[r].resp.status = NOT_FOUND
    /\ \E r \in RespondedBy("get_block_by_height") :
          /\ RpcFailedWith(r, RpcNotFound)
          /\ req[r].resp.status = NOT_FOUND
          /\ req[r].resp.body = "Block not found"

\* the requests in the server that go to a handler, with their path at hand
InHandler(handler) ==
    {r \in Reqs : /\ req[r].pc \notin {"new", "done"}
                  /\ HandlerOf(req[r].route) = handler
                  /\ req[r].route # NoRoute => MethodAllowed(req[r].method)}

\* no unit was ever dispatched for the request and it made no RPC call
NoOffload(r) ==
    /\ req[r].unit = "none"
    /\ req[r].call = None
    /\ req[r].rpcLog = <<>>
    /\ \A i \in DOMAIN queue : queue[i] # r

\* the text is not a block identifier: not 64 characters, or some character
\* that is no hexadecimal digit
NotABlockIdentifier(s) ==
    \/ Len(s) # 64
    \/ \E i \in DOMAIN s : s[i] \notin Range(HexDigits) \cup Range(UpperHex)

HashParam(r) == req[r].path[3]

(***************************************************************************)
(* C4: a raw-block request whose hash parameter is no block identifier is  *)
(* answered 400 "Invalid block hash" with no unit dispatched and no RPC    *)
(* call; a raw-block request makes an RPC call only after a successful     *)
(* parse, and the call carries the parsed hash.                            *)
(***************************************************************************)
C4_MalformedHashIs400BeforeRpc ==
    \A r \in InHandler("get_block_raw") :
        /\ NotABlockIdentifier(HashParam(r)) =>
              /\ NoOffload(r)
              /\ req[r].pc \in {"routed", "in_mw", "responded"}
              /\ req[r].pc = "responded" =>
                    /\ req[r].resp.status = BAD_REQUEST
                    /\ req[r].resp.kind = "text"
                    /\ req[r].resp.body = "Invalid block hash"
        /\ ~NoOffload(r) =>
              /\ ~NotABlockIdentifier(HashParam(r))
              /\ \A i \in DOMAIN req[r].rpcLog :
                    /\ req[r].rpcLog[i].op = "get_block_hex"
                    /\ BlockHashToString(req[r].rpcLog[i].arg)
                         = [j \in DOMAIN HashParam(r) |->
                               IF HashParam(r)[j] \in Range(UpperHex)
                               THEN HexDigits[HexVal(HashParam(r)[j]) + 1]
                               ELSE HashParam(r)[j]]

\* a raw-block request has been answered 400 and returned, and a request
\* with a 63-character hash has its 400 without any unit or call
C4_Witness ==
    /\ \E r \in Done :
          /\ HandlerOf(req[r].route) = "get_block_raw"
          /\ req[r].resp.status = BAD_REQUEST
    /\ \E r \in RespondedBy("get_block_raw") :
          /\ Len(HashParam(r)) = 63
          /\ req[r].resp.status = BAD_REQUEST
          /\ NoOffload(r)

\* the keys of a complete fee-estimates response
ExpectedFeeKeys ==
    { <<"1">>, <<"2">>, <<"3">>, <<"4">>, <<"5">>, <<"6">>, <<"7">>, <<"8">>, <<"9">>,
      <<"1", "0">>, <<"1", "1">>, <<"1", "2">>, <<"1", "3">>, <<"1", "4">>,
      <<"1", "5">>, <<"1", "6">>, <<"1", "7">>, <<"1", "8">>, <<"1", "9">>,
      <<"2", "0">>, <<"2", "1">>, <<"2", "2">>, <<"2", "3">>, <<"2", "4">>,
      <<"2", "5">>, <<"1", "4", "4">>, <<"5", "0", "4">>, <<"1", "0", "0", "8">> }

(***************************************************************************)
(* C5: a fee-estimates response is either 200 with exactly 28 entries      *)
(* keyed by the fixed confirmation targets, or 500 with no estimates;      *)
(* never a response with fewer than 28 entries.                            *)
(***************************************************************************)
C5_FeeEstimatesAllOrNothing ==
    \A r \in RespondedBy("get_fee_estimates") :
        \/ /\ req[r].resp.status = OK
           /\ req[r].resp.kind = "json"
           /\ DOMAIN req[r].resp.body = ExpectedFeeKeys
           /\ Cardinality(DOMAIN req[r].resp.body) = 28
        \/ /\ req[r].resp.status = INTERNAL_SERVER_ERROR
           /\ req[r].resp.kind = "text"
           /\ req[r].resp.body = "RPC error"

\* the call for the last target failed after 27 estimates had been collected,
\* and the response is 500
C5_Witness ==
    \E r \in RespondedBy("get_fee_estimates") :
        /\ Len(req[r].answers) = 28
        /\ \A i \in 1..27 : req[r].answers[i].ok
        /\ ~req[r].answers[28].ok
        /\ req[r].resp.status = INTERNAL_SERVER_ERROR

(***************************************************************************)
(* C6: a request on a path that matches no registered route is answered    *)
(* 307 with a redirect to "/", with no unit dispatched and no RPC call.    *)
(***************************************************************************)
C6_UnmatchedPathRedirects ==
    \A r \in Reqs :
        /\ req[r].pc \notin {"new", "done"} => req[r].route = MatchRoute(req[r].path)
        /\ (req[r].pc # "new" /\ req[r].route = NoRoute) =>
            /\ NoOffload(r)
            /\ req[r].pc \in {"routed", "responded", "done"}
            /\ req[r].pc \in {"responded", "done"} =>
                  req[r].resp.status = TEMPORARY_REDIRECT
            /\ req[r].pc = "responded" =>
                  req[r].resp.kind = "location" /\ req[r].resp.body = "/"

\* a request for /nope has been redirected
C6_Witness ==
    \E r \in Responded :
        /\ req[r].path = <<S_nope>>
        /\ req[r].resp.status = TEMPORARY_REDIRECT
        /\ req[r].resp.body = "/"

SingleCallHandlers == {"get_tip_height", "get_block_by_height", "get_block_raw"}

(***************************************************************************)
(* C7: no RPC call is retried.  A tip-height, block-by-height or           *)
(* well-formed raw-block request makes at most one call, and exactly one   *)
(* by the time it has a response; a fee-estimates request calls each       *)
(* confirmation target at most once, in the order of the list; a failed    *)
(* call is the last call of its request and its response is an error.      *)
(***************************************************************************)
C7_NoRpcRetry ==
    \A r \in Reqs :
        LET q == req[r] IN
        q.pc \notin {"new", "done"} =>
            /\ Len(q.answers) + (IF q.call = None \/ q.unit = "panicked" THEN 0 ELSE 1)
                  <= Len(q.rpcLog)
            /\ Len(q.rpcLog) <= Len(q.answers) + 1
            /\ HandlerOf(q.route) \in SingleCallHandlers =>
                  /\ Len(q.rpcLog) <= 1
                  /\ (q.resp # None /\ q.unit # "none") => Len(q.rpcLog) = 1
            /\ HandlerOf(q.route) = "get_fee_estimates" =>
                  /\ Len(q.rpcLog) <= 28
                  /\ \A i \in DOMAIN q.rpcLog :
                        /\ q.rpcLog[i].op = "estimate_smart_fee"
                        /\ q.rpcLog[i].arg = CONFIRMATION_TARGETS[i]
                  /\ \A i, j \in DOMAIN q.rpcLog :
                        q.rpcLog[i].arg = q.rpcLog[j].arg => i = j
            /\ \A i \in DOMAIN q.answers :
                  ~q.answers[i].ok =>
                      /\ i = Len(q.answers)
                      /\ Len(q.rpcLog) = i
                      /\ q.call = None
                      /\ q.unit = "finished"
                      /\ q.join = Ok(Err(q.answers[i].err))
                      /\ q.resp # None => q.resp.status \in {NOT_FOUND, INTERNAL_SERVER_ERROR}

\* a tip-height request has been answered 500 and returned; the third call of
\* a fee-estimates request failed and the response is 500
C7_Witness ==
    /\ \E r \in Done :
          /\ HandlerOf(req[r].route) = "get_tip_height"
          /\ req[r].resp.status = INTERNAL_SERVER_ERROR
    /\ \E r \in RespondedBy("get_fee_estimates") :
          /\ Len(req[r].rpcLog) = 3
          /\ RpcFailedWith(r, RpcOther)
          /\ req[r].resp.status = INTERNAL_SERVER_ERROR

(***************************************************************************)
(* C8: when each of the 28 fee-rate calls answers, with an estimate or     *)
(* with none, the response is 200 with all 28 entries; the entry of a      *)
(* target without an estimate is the fallback 0.0001, the entry of any     *)
(* other target is the daemon's estimate.                                  *)
(***************************************************************************)
C8_NoEstimateIsFallbackNotFailure ==
    \A r \in RespondedBy("get_fee_estimates") :
        (Len(req[r].answers) = 28 /\ \A i \in 1..28 : req[r].answers[i].ok) =>
            /\ req[r].resp.status = OK
            /\ req[r].resp.kind = "json"
            /\ DOMAIN req[r].resp.body = ExpectedFeeKeys
            /\ \A i \in 1..28 :
                  req[r].resp.body[to_string(CONFIRMATION_TARGETS[i])] =
                      IF req[r].answers[i].val.fee_rate.none
                      THEN [mantissa |-> 1, exponent |-> -4]
                      ELSE [mantissa |-> req[r].answers[i].val.fee_rate.val,
                            exponent |-> -8]

\* a 200 response in which target 504 has the fallback and target 1008 an estimate
C8_Witness ==
    \E r \in RespondedBy("get_fee_estimates") :
        /\ req[r].resp.status = OK
        /\ req[r].answers[27].val.fee_rate.none
        /\ ~req[r].answers[28].val.fee_rate.none
        /\ req[r].resp.body[<<"5", "0", "4">>] = [mantissa |-> 1, exponent |-> -4]
        /\ req[r].resp.body[<<"1", "0", "0", "8">>] = [mantissa |-> 20000 - 1008, exponent |-> -8]

\* a step of request r's own task or unit, or of the daemon answering it
OwnStep(r) ==
    \/ TrackMetricsStart(r)
    \/ MethodNotAllowed(r)
    \/ index(r)
    \/ fallback(r)
    \/ get_tip_height(r)
    \/ get_block_by_height(r)
    \/ get_fee_estimates(r)
    \/ get_block_raw(r)
    \/ WorkerStart(r)
    \/ RpcCall(r)
    \/ RpcReturn(r)
    \/ JoinResume(r)
    \/ TrackMetricsFinish(r)
    \/ ReturnDirect(r)

\* the request's unit is queued and no worker is free for it: the pool is
\* full, or an older unit is ahead of it in the queue
WaitsForSlot(r) ==
    /\ req[r].unit = "queued"
    /\ \/ Cardinality(Running) >= PoolSize
       \/ Head(queue) # r

TipHeightLabels(status) ==
    [method |-> "GET", path |-> [template |-> "/api/blocks/tip/height"], status |-> status]

TipHeightDone ==
    {r \in Done : req[r].route # NoRoute /\ Routes[req[r].route].path = "/api/blocks/tip/height"}

(***************************************************************************)
(* C9: with N concurrent requests to /api/blocks/tip/height, under every   *)
(* interleaving, the counter of the route has been incremented once per    *)
(* request completed (N when all have completed), the histogram likewise;  *)
(* and a request that has not completed can take a step of its own unless  *)
(* it is waiting for a worker-pool slot.                                   *)
(***************************************************************************)
C9_ConcurrentTipHeightCounted ==
    /\ SumOver(counter, {l \in DOMAIN counter : l.path = [template |-> "/api/blocks/tip/height"]})
          = Cardinality(TipHeightDone)
    /\ SumOver(histogram, {l \in DOMAIN histogram : l.path = [template |-> "/api/blocks/tip/height"]})
          = Cardinality(TipHeightDone)
    /\ (\A r \in Reqs : req[r].pc = "done") =>
          /\ Count(counter, TipHeightLabels(<<"2", "0", "0">>))
               + Count(counter, TipHeightLabels(<<"5", "0", "0">>)) = NumReq
          /\ \A s \in {<<"2", "0", "0">>, <<"5", "0", "0">>} :
                Count(counter, TipHeightLabels(s))
                   = Cardinality({r \in Reqs : to_string(req[r].resp.status) = s})
    /\ \A r \in Reqs :
          req[r].pc \notin {"new", "done"} =>
              \/ ENABLED OwnStep(r)
              \/ WaitsForSlot(r)

\* all N requests have completed with 200 and the counter of the label stands at N
C9_Witness ==
    /\ \A r \in Reqs : req[r].pc = "done" /\ req[r].resp.status = OK
    /\ Count(counter, TipHeightLabels(<<"2", "0", "0">>)) = NumReq
    /\ NumReq > 1

\* metric c' is metric c with one more observation, under label tuple l
OneMore(c, l) ==
    /\ DOMAIN c' = DOMAIN c \cup {l}
    /\ Count(c', l) = Count(c, l) + 1
    /\ \A k \in DOMAIN c : k # l => c'[k] = c[k]

\* the step dispatches request r's unit, or issues an RPC call of r
Offloads(r) ==
    \/ req[r].unit = "none" /\ req'[r].unit # "none"
    \/ Len(req'[r].rpcLog) > Len(req[r].rpcLog)

(***************************************************************************)
(* C10: within a request the steps are ordered.  The middleware has taken  *)
(* its start before the unit is dispatched or any RPC call is issued, and  *)
(* it takes it before anything else of the request happens; an RPC call is *)
(* issued only while the request has no response; the counter and the      *)
(* histogram change only by one observation of a request whose response    *)
(* has been produced, in the step that returns it, and the status label is *)
(* the status code returned.                                               *)
(***************************************************************************)
C10_RequestStepsOrdered ==
    [][ /\ \A r \in Reqs :
              /\ Offloads(r) =>
                    /\ req[r].mw # None
                    /\ req[r].resp = None
                    /\ req'[r].resp = None
              /\ (req[r].mw = None /\ req'[r].mw # None) =>
                    /\ NoOffload(r)
                    /\ req[r].resp = None
                    /\ req'[r].resp = None
              /\ (req[r].resp = None /\ req'[r].resp # None) =>
                    /\ req[r].call = None
                    /\ req[r].unit \in {"none", "finished", "panicked"}
                    /\ req'[r].pc = "responded"
        /\ (counter' # counter \/ histogram' # histogram) =>
              \E r \in Reqs :
                  /\ req[r].pc = "responded"
                  /\ req[r].mw # None
                  /\ req'[r].pc = "done"
                  /\ req'[r].resp.status = req[r].resp.status
                  /\ \E l \in DOMAIN counter' :
                        /\ OneMore(counter, l)
                        /\ OneMore(histogram, l)
                        /\ l.method = req[r].method
                        /\ DecValue(l.status) = req'[r].resp.status
      ]_vars

\* a block-by-height request answered 404 after its RPC call has been returned
\* and counted under status 404
C10_Witness ==
    \E r \in Done :
        /\ req[r].mw # None
        /\ req[r].resp.status = NOT_FOUND
        /\ Count(counter, [method |-> "GET",
                           path |-> [template |-> "/api/block-height/{height}"],
                           status |-> <<"4", "0", "4">>]) = 1
        /\ Count(histogram, [method |-> "GET",
                             path |-> [template |-> "/api/block-height/{height}"],
                             status |-> <<"4", "0", "4">>]) = 1

\* the path templates of the registered routes
RouteTemplates == {Routes[i].path : i \in DOMAIN Routes}

\* the methods clients use
RequestMethods == {in.method : in \in RequestInputs}

\* the status codes the routes answer with
RouteStatuses == {OK, BAD_REQUEST, NOT_FOUND, METHOD_NOT_ALLOWED, INTERNAL_SERVER_ERROR}

\* the label tuples over the route templates: a fixed, finite set
LabelUniverse ==
    {[method |-> m, path |-> [template |-> t], status |-> to_string(s)] :
        m \in RequestMethods, t \in RouteTemplates, s \in RouteStatuses}

(***************************************************************************)
(* C11: in every observation recorded in the counter or the histogram the  *)
(* path label is the template of a registered route, the template of the   *)
(* route the request matched, never the request's own path; the label      *)
(* tuples recorded lie in a fixed finite set whatever paths are requested. *)
(***************************************************************************)
C11_PathLabelIsRouteTemplate ==
    /\ \A l \in DOMAIN counter \cup DOMAIN histogram :
          /\ DOMAIN l.path = {"template"}
          /\ l.path.template \in RouteTemplates
    /\ DOMAIN counter \subseteq LabelUniverse
    /\ DOMAIN histogram \subseteq LabelUniverse
    /\ Cardinality(LabelUniverse)
          = Cardinality(RequestMethods) * Len(Routes) * Cardinality(RouteStatuses)
    /\ \A r \in Reqs :
          req[r].mw # None =>
              /\ req[r].route # NoRoute
              /\ req[r].mw.path = [template |-> Routes[req[r].route].path]
              /\ req[r].pc # "done" => req[r].mw.path # [raw |-> req[r].path]

\* two block-by-height requests with different parameter values ("x", answered
\* 400 and counted; "0", answered 200) carry the same path label
C11_Witness ==
    /\ \E r \in Done :
          /\ req[r].resp.status = BAD_REQUEST
          /\ req[r].mw.path = [template |-> "/api/block-height/{height}"]
          /\ Count(counter, [method |-> "GET",
                             path |-> [template |-> "/api/block-height/{height}"],
                             status |-> <<"4", "0", "0">>]) = 1
    /\ \E q \in RespondedBy("get_block_by_height") :
          /\ req[q].path = <<S_api, S_block_height, <<"0">> >>
          /\ req[q].resp.status = OK
          /\ req[q].mw.path = [template |-> "/api/block-height/{height}"]

\* the height a block-by-height request asks for
HeightParam(r) == ParseU64(req[r].path[3]).val

(***************************************************************************)
(* C12: round trip height -> hash -> raw.  A 200 response to a             *)
(* block-by-height request for H is for a height H the daemon knows, and   *)
(* its body is the identifier of the block at H in canonical form, which   *)
(* BlockHash::from_str parses back to the daemon's hash; a raw-block       *)
(* request with that string asks the daemon for exactly that hash, is      *)
(* never told NotFound, and when the daemon answers, its response is 200   *)
(* with the hex the daemon holds for the block at H, unmodified.           *)
(***************************************************************************)
C12_RoundTripHeightHashRaw ==
    \A q \in RespondedBy("get_block_by_height") :
        req[q].resp.status = OK =>
            LET H == HeightParam(q)
                id == req[q].resp.body
            IN /\ H \in KnownHeights
               /\ req[q].resp.kind = "hash"
               /\ id = BlockHashToString(ChainHash(H))
               /\ Len(id) = 64
               /\ ~NotABlockIdentifier(id)
               /\ BlockHashFromStr(id) = Ok(ChainHash(H))
               /\ \A r \in InHandler("get_block_raw") :
                     HashParam(r) = id =>
                         /\ \A i \in DOMAIN req[r].rpcLog :
                               req[r].rpcLog[i] = [op |-> "get_block_hex", arg |-> ChainHash(H)]
                         /\ ~RpcFailedWith(r, RpcNotFound)
                         /\ req[r].pc = "responded" =>
                               /\ req[r].resp.status # BAD_REQUEST
                               /\ Len(req[r].answers) = 1 /\ req[r].answers[1].ok =>
                                     /\ req[r].resp.status = OK
                                     /\ req[r].resp.kind = "hex"
                                     /\ req[r].resp.body = ChainHex(H)
                                     /\ req[r].resp.body = req[r].answers[1].val
                               /\ req[r].resp.status = OK =>
                                     req[r].resp.body = ChainHex(H)

\* a block-by-height request for height 0 has its 200, and a raw-block request
\* with the body of that response as its hash has the hex of block 0
C12_Witness ==
    \E q \in RespondedBy("get_block_by_height") :
        \E r \in RespondedBy("get_block_raw") :
            /\ HeightParam(q) = 0
            /\ req[q].resp.status = OK
            /\ HashParam(r) = req[q].resp.body
            /\ req[r].resp.status = OK
            /\ req[r].resp.body = <<"0", "1", "0", "0", "0", "0">>
            /\ req[r].resp.body # ChainHex(TipHeight)

\* the blocking call each handler makes
RpcOpOf(handler) ==
    CASE handler = "get_tip_height" -> "get_block_count"
      [] handler = "get_block_by_height" -> "get_block_hash"
      [] handler = "get_fee_estimates" -> "estimate_smart_fee"
      [] handler = "get_block_raw" -> "get_block_hex"

\* an RPC call of request r, in flight or made, belongs to its unit: the unit
\* has been taken by a worker and the request's task is suspended on it
CallsInsideUnit(r) ==
    /\ req[r].call # None =>
          /\ req[r].unit = "running"
          /\ req[r].pc = "awaiting"
          /\ req[r].call.op = RpcOpOf(HandlerOf(req[r].route))
    /\ (req[r].pc # "done" /\ req[r].rpcLog # <<>>) =>
          req[r].unit \in {"running", "finished", "panicked"}
    /\ req[r].unit \in {"queued", "running"} =>
          /\ req[r].pc = "awaiting"
          /\ req[r].join = None
          /\ req[r].resp = None

\* what the task and the unit of request r may do in one step
TaskAndUnitSteps(r) ==
    \* a call is issued by the running unit while the task stays suspended
    /\ Len(req'[r].rpcLog) > Len(req[r].rpcLog) =>
          /\ req[r].unit = "running" /\ req'[r].unit = "running"
          /\ req[r].pc = "awaiting" /\ req'[r].pc = "awaiting"
          /\ req'[r].call = req'[r].rpcLog[Len(req'[r].rpcLog)]
          /\ req'[r].call.op \in
                {"get_block_count", "get_block_hash", "estimate_smart_fee", "get_block_hex"}
    \* the task's part of the offload is the dispatch: the unit is queued, the
    \* task suspends, and no call has been made
    /\ (req[r].unit = "none" /\ req'[r].unit # "none") =>
          /\ req'[r].unit = "queued"
          /\ req'[r].pc = "awaiting"
          /\ queue' = Append(queue, r)
          /\ req'[r].call = None /\ req'[r].rpcLog = <<>>
    \* the task resumes only on the completion signal of its unit
    /\ (req[r].pc = "awaiting" /\ req'[r].pc # "awaiting") =>
          /\ req[r].join # None
          /\ req[r].unit \in {"finished", "panicked"}
          /\ req[r].call = None
          /\ req'[r].rpcLog = req[r].rpcLog

(***************************************************************************)
(* C13: every blocking RPC call (get_block_count, get_block_hash,          *)
(* estimate_smart_fee, get_block_hex) is made by a unit running on the     *)
(* worker pool, never by the request's task: the task dispatches the unit, *)
(* suspends, and moves again only when the unit has signalled completion.  *)
(***************************************************************************)
C13_RpcCallsOffloaded ==
    /\ [](\A r \in Reqs : CallsInsideUnit(r))
    /\ [][\A r \in Reqs : TaskAndUnitSteps(r)]_vars

\* a raw-block request was answered 200 from its unit's call, and the unit of
\* a fee-estimates request has its second call in flight while its task waits
C13_Witness ==
    /\ \E r \in Done :
          /\ HandlerOf(req[r].route) = "get_block_raw"
          /\ req[r].resp.status = OK
    /\ \E q \in Reqs :
          /\ req[q].pc = "awaiting"
          /\ req[q].unit = "running"
          /\ req[q].call = [op |-> "estimate_smart_fee", arg |-> 2]

\* request r is a fee-estimates request in the server
IsFeeEstimates(r) ==
    /\ req[r].pc \notin {"new", "done"}
    /\ HandlerOf(req[r].route) = "get_fee_estimates"
    /\ MethodAllowed(req[r].method)

\* the calls request r has made are for the first targets of the list, in
\* the order of the list, one call per target
CallsFollowTargets(r) ==
    /\ Len(req[r].rpcLog) <= Len(CONFIRMATION_TARGETS)
    /\ \A i \in DOMAIN req[r].rpcLog :
          /\ req[r].rpcLog[i].op = "estimate_smart_fee"
          /\ req[r].rpcLog[i].arg = CONFIRMATION_TARGETS[i]
    /\ \A i, j \in DOMAIN req[r].rpcLog :
          i < j => req[r].rpcLog[i].arg < req[r].rpcLog[j].arg

\* at most one call of request r is unanswered, and it is the last one made
OneCallAtATime(r) ==
    /\ Len(req[r].answers) <= Len(req[r].rpcLog)
    /\ Len(req[r].rpcLog) <= Len(req[r].answers) + 1
    /\ req[r].call # None =>
          /\ Len(req[r].rpcLog) = Len(req[r].answers) + 1
          /\ req[r].call = req[r].rpcLog[Len(req[r].rpcLog)]

\* if the k-th call of request r failed, r made exactly k calls, all before
\* it were answered without error, and the unit has ended with that error
FailedCallIsLast(r) ==
    \A k \in DOMAIN req[r].answers :
        ~req[r].answers[k].ok =>
            /\ Len(req[r].rpcLog) = k
            /\ Len(req[r].answers) = k
            /\ \A i \in 1..(k - 1) : req[r].answers[i].ok
            /\ req[r].call = None
            /\ req[r].unit = "finished"
            /\ req[r].pc = "responded" => req[r].resp.status = INTERNAL_SERVER_ERROR

\* a call of request r is issued in this step
IssuesCall(r) == Len(req'[r].rpcLog) > Len(req[r].rpcLog)

(***************************************************************************)
(* C14: within a fee-estimates request the fee-rate calls are issued one   *)
(* at a time, in the ascending order of the confirmation-target list       *)
(* (1..25, 144, 504, 1008); a call is issued only when every call before   *)
(* it has returned without error, so when the k-th call fails exactly k    *)
(* calls were made for the request.                                        *)
(***************************************************************************)
C14_FeeCallsInOrderStopAtError ==
    /\ [](\A r \in Reqs : IsFeeEstimates(r) =>
             /\ CallsFollowTargets(r)
             /\ OneCallAtATime(r)
             /\ FailedCallIsLast(r))
    /\ [][\A r \in Reqs : (IsFeeEstimates(r) /\ IssuesCall(r)) =>
             /\ Len(req'[r].rpcLog) = Len(req[r].rpcLog) + 1
             /\ req[r].call = None
             /\ Len(req[r].answers) = Len(req[r].rpcLog)
             /\ \A i \in DOMAIN req[r].answers : req[r].answers[i].ok
             /\ req'[r].call.arg = CONFIRMATION_TARGETS[Len(req[r].rpcLog) + 1]]_vars

\* the 26th call, for target 144, failed after 25 estimates: 26 calls were
\* made and the response is 500
C14_Witness ==
    \E r \in RespondedBy("get_fee_estimates") :
        /\ Len(req[r].rpcLog) = 26
        /\ req[r].rpcLog[26].arg = 144
        /\ Len(req[r].answers) = 26
        /\ ~req[r].answers[26].ok
        /\ \A i \in 1..25 : req[r].answers[i].ok /\ req[r].rpcLog[i].arg = i
        /\ req[r].resp.status = INTERNAL_SERVER_ERROR

\* a step of request r's task: the middleware, a handler, the resumption
\* after the await, the return of the response
TaskStep(r) ==
    \/ TrackMetricsStart(r)
    \/ MethodNotAllowed(r)
    \/ index(r)
    \/ fallback(r)
    \/ get_tip_height(r)
    \/ get_block_by_height(r)
    \/ get_fee_estimates(r)
    \/ get_block_raw(r)
    \/ JoinResume(r)
    \/ TrackMetricsFinish(r)
    \/ ReturnDirect(r)

\* every worker of the pool is running a unit
PoolSaturated == Cardinality(Running) >= PoolSize

\* the number of places request r's unit has in the queue
QueuedTimes(r) == Cardinality({i \in DOMAIN queue : queue[i] = r})

\* a request whose call has not returned: it has no response, its unit keeps
\* its worker, and no step of its task is possible
HungCallHoldsSlot(r) ==
    req[r].call # None =>
        /\ req[r].resp = None
        /\ req[r].join = None
        /\ req[r].pc = "awaiting"
        /\ r \in Running
        /\ ~ENABLED TaskStep(r)

\* a request whose unit has no worker yet: it waits in the queue, it has no
\* response of any kind, and no step of its task is possible; while the pool
\* is saturated no worker takes it
QueuedWaits(r) ==
    req[r].unit = "queued" =>
        /\ QueuedTimes(r) = 1
        /\ req[r].resp = None
        /\ req[r].join = None
        /\ req[r].pc = "awaiting"
        /\ ~ENABLED TaskStep(r)
        /\ PoolSaturated => ~ENABLED WorkerStart(r)

\* what can happen to request r in one step while it waits
WaitingSteps(r) ==
    \* a call in flight ends only by the daemon's answer or by the unit
    \* unwinding: nothing else touches the request
    /\ (req[r].call # None /\ req'[r] # req[r]) =>
          /\ req'[r].call = None
          /\ \/ Len(req'[r].answers) = Len(req[r].answers) + 1
             \/ req'[r].unit = "panicked"
    \* a worker is released only by a unit whose call has ended
    /\ (r \in Running /\ req'[r].unit # "running") => req[r].call # None
    \* dispatch is never refused, whatever the state of the pool
    /\ (req[r].unit = "none" /\ req'[r].unit # "none") =>
          /\ req'[r].unit = "queued"
          /\ queue' = Append(queue, r)
          /\ req'[r].resp = None
    \* a queued unit leaves the queue only to a free worker, oldest first
    /\ (req[r].unit = "queued" /\ req'[r].unit # "queued") =>
          /\ req'[r].unit = "running"
          /\ ~PoolSaturated
          /\ Head(queue) = r
          /\ queue' = Tail(queue)
          /\ req'[r].resp = None

(***************************************************************************)
(* C15: there is no timeout and no admission control.  While the RPC call  *)
(* of a request has not returned, the request has no response, its task    *)
(* cannot take a step, and its unit keeps its worker; the wait ends only   *)
(* by the call ending.  A request that needs an RPC call while every       *)
(* worker is held is queued, neither rejected nor answered with an error,  *)
(* and its unit starts only once a worker is free.                         *)
(***************************************************************************)
C15_NoTimeoutNoAdmissionControl ==
    /\ [](\A r \in Reqs : HungCallHoldsSlot(r) /\ QueuedWaits(r))
    /\ [][\A r \in Reqs : WaitingSteps(r)]_vars

\* the pool is saturated by a unit whose call is in flight, and a later
\* request's unit waits in the queue
C15_Witness ==
    /\ PoolSaturated
    /\ \A r \in Running : req[r].call # None
    /\ \E q \in Reqs :
          /\ req[q].unit = "queued"
          /\ req[q].pc = "awaiting"
          /\ req[q].resp = None
          /\ queue = <<q>>

\* the text of the height segment
HeightText(r) == req[r].path[3]

\* the text is no unsigned 64-bit integer: after an optional "+" it is
\* empty, has a character that is no decimal digit, or is above 2^64 - 1
NotAU64(s) ==
    LET d == IF s[1] = "+" THEN SubSeq(s, 2, Len(s)) ELSE s
    IN \/ d = <<>>
       \/ \E i \in DOMAIN d : d[i] \notin {"0", "1", "2", "3", "4", "5", "6", "7", "8", "9"}
       \/ ExceedsU64(d)

(***************************************************************************)
(* C16: a block-by-height request whose height segment is no unsigned      *)
(* 64-bit integer is rejected on extraction: no unit is dispatched, no RPC *)
(* call is made, and the response is 400, not the 404 of a height the      *)
(* daemon does not know; a unit is dispatched only for a segment that      *)
(* parses, the call carries the parsed height, and a 404 comes from the    *)
(* daemon's answer alone.                                                  *)
(***************************************************************************)
C16_UnparsableHeightIs400BeforeHandler ==
    \A r \in InHandler("get_block_by_height") :
        /\ NotAU64(HeightText(r)) =>
              /\ NoOffload(r)
              /\ req[r].pc \in {"routed", "in_mw", "responded"}
              /\ req[r].pc = "responded" =>
                    /\ req[r].resp.status = BAD_REQUEST
                    /\ req[r].resp.status # NOT_FOUND
        /\ ~NoOffload(r) =>
              /\ ~NotAU64(HeightText(r))
              /\ \A i \in DOMAIN req[r].rpcLog :
                    /\ req[r].rpcLog[i].op = "get_block_hash"
                    /\ to_string(req[r].rpcLog[i].arg) = StripZeros(
                          IF HeightText(r)[1] = "+" THEN Tail(HeightText(r)) ELSE HeightText(r))
        /\ (req[r].pc = "responded" /\ req[r].resp.status = NOT_FOUND) =>
              /\ req[r].unit = "finished"
              /\ Len(req[r].rpcLog) = 1
        /\ (req[r].pc = "responded" /\ req[r].resp.status = BAD_REQUEST) =>
              NotAU64(HeightText(r))

\* a request for a height past the tip was answered 404 from the daemon's
\* answer, and a request for height 2^64 has its 400 with no unit and no call
C16_Witness ==
    /\ \E r \in Done : req[r].resp.status = NOT_FOUND
    /\ \E q \in RespondedBy("get_block_by_height") :
          /\ Len(HeightText(q)) = 20
          /\ HeightText(q)[20] = "6"
          /\ req[q].resp.status = BAD_REQUEST
          /\ NoOffload(q)

\* the statuses the claim allows each API route
AllowedStatuses(handler) ==
    CASE handler = "get_tip_height" -> {200, 500}
      [] handler = "get_fee_estimates" -> {200, 500}
      [] handler = "get_block_by_height" -> {200, 400, 404, 500}
      [] handler = "get_block_raw" -> {200, 400, 404, 500}

\* request r is a GET request to one of the four API routes
IsApiGet(r) ==
    /\ req[r].pc # "new"
    /\ req[r].method = "GET"
    /\ HandlerOf(req[r].route) \in RpcHandlers

\* what went wrong for request r, if anything: a path parameter that does not
\* parse, an RPC error, a unit that did not complete
Failure(r) ==
    IF req[r].unit = "none" THEN "parse failure"
    ELSE IF UnitFailed(r) THEN "offload failure"
    ELSE IF req[r].join.val.ok THEN "none"
    ELSE "rpc error"

\* request r has a response exactly when its task is past the handler, and
\* the status is one the route may answer
ResolvedAtHandler(r) ==
    /\ req[r].pc \in {"routed", "in_mw", "awaiting"} => req[r].resp = None
    /\ req[r].pc \in {"responded", "done"} =>
          /\ req[r].resp # None
          /\ req[r].resp.status \in AllowedStatuses(HandlerOf(req[r].route))
    /\ req[r].pc = "responded" =>
          /\ Failure(r) = "none" <=> req[r].resp.status = 200
          /\ Failure(r) = "parse failure" <=> req[r].resp.status = 400
          /\ Failure(r) = "offload failure" => req[r].resp.status = 500
          /\ Failure(r) = "rpc error" => req[r].resp.status \in {404, 500}
    \* a request without a response is never stuck for good: a step of its
    \* own is possible, unless its unit waits for a worker
    /\ req[r].pc \in {"routed", "in_mw", "awaiting"} =>
          ENABLED OwnStep(r) \/ ENABLED UnitPanic(r) \/ WaitsForSlot(r)

\* the response of request r is produced once and not replaced
RespondsOnce(r) ==
    /\ req[r].resp # None =>
          /\ req'[r].resp # None
          /\ req'[r].resp.status = req[r].resp.status
          /\ req'[r].pc \in {"responded", "done"}
    /\ (req[r].resp = None /\ req'[r].resp # None) =>
          /\ req[r].pc \in {"routed", "in_mw", "awaiting"}
          /\ req'[r].pc = "responded"

(***************************************************************************)
(* C17: no error propagates past the handler.  For every GET request to    *)
(* one of the four API routes, whatever parse failure, RPC error or        *)
(* offload failure occurs, the handler produces one response, which is not *)
(* replaced, and its status is 200, 400, 404 or 500 (200 or 500 for tip    *)
(* height and fee estimates).                                              *)
(***************************************************************************)
C17_ErrorsResolvedAtHandler ==
    /\ [](\A r \in Reqs : IsApiGet(r) => ResolvedAtHandler(r))
    /\ [][\A r \in Reqs : IsApiGet(r) => RespondsOnce(r)]_vars

\* a raw-block request with a malformed hash was answered 400, and a
\* fee-estimates request whose unit did not complete has its 500
C17_Witness ==
    /\ \E r \in Done :
          /\ HandlerOf(req[r].route) = "get_block_raw"
          /\ req[r].resp.status = BAD_REQUEST
    /\ \E q \in RespondedBy("get_fee_estimates") :
          /\ Failure(q) = "offload failure"
          /\ Len(req[q].rpcLog) = 2
          /\ req[q].resp.status = INTERNAL_SERVER_ERROR

\* the units of request r the pool holds: queued, or running on a worker
UnitsHeld(r) == QueuedTimes(r) + (IF r \in Running THEN 1 ELSE 0)

\* the requests in the server whose handler has offloaded and awaits
Awaiting == {r \in Reqs : req[r].pc = "awaiting"}

\* the pool holds at most one unit of request r, and only while r awaits it
AtMostOneUnit(r) ==
    /\ UnitsHeld(r) <= 1
    /\ UnitsHeld(r) = 1 <=> req[r].unit \in {"queued", "running"}
    /\ UnitsHeld(r) = 1 => r \in Awaiting
    /\ req[r].pc # "done" /\ req[r].rpcLog # <<>> => req[r].unit # "none"

\* one step in the life of request r's unit: it is dispatched once, from a
\* request that never had a unit; once running it stays on its worker for
\* all of its calls and leaves it only by ending; an ended unit makes no
\* call and is not dispatched again
OneUnitPerRequest(r) ==
    /\ QueuedTimes(r)' > QueuedTimes(r) =>
          /\ req[r].unit = "none"
          /\ req[r].rpcLog = <<>>
          /\ QueuedTimes(r)' = 1
    /\ (req[r].unit = "none" /\ req'[r].unit # "none") => req'[r].unit = "queued"
    /\ (req[r].unit = "queued" /\ req'[r].unit # "queued") => req'[r].unit = "running"
    /\ (req[r].unit = "running" /\ req'[r].unit # "running") =>
          req'[r].unit \in {"finished", "panicked"}
    /\ req[r].unit \in {"finished", "panicked"} =>
          /\ req'[r].unit = req[r].unit \/ req'[r].pc = "done"
          /\ req'[r].rpcLog = req[r].rpcLog \/ req'[r].pc = "done"
    /\ Len(req'[r].rpcLog) > Len(req[r].rpcLog) =>
          /\ req[r].unit = "running" /\ req'[r].unit = "running"
          /\ QueuedTimes(r) = 0 /\ QueuedTimes(r)' = 0

(***************************************************************************)
(* C18: a request holds at most one worker-pool unit at any time and       *)
(* dispatches at most one in its lifetime; a fee-estimates request makes   *)
(* all of its calls, up to 28, one after the other inside that one unit;   *)
(* so the K requests awaiting a unit account for at most K units, queued   *)
(* or running, and occupy at most K workers.                               *)
(***************************************************************************)
C18_OneUnitPerRequest ==
    /\ [](/\ \A r \in Reqs : AtMostOneUnit(r)
          /\ Cardinality(Running) <= Cardinality(Awaiting)
          /\ Cardinality(Running) + Len(queue) <= Cardinality(Awaiting)
          /\ Cardinality(Running) <= PoolSize)
    /\ [][\A r \in Reqs : OneUnitPerRequest(r)]_vars

\* a fee-estimates request has made all 28 calls in its unit, still running
\* on its worker, while the unit of a tip-height request waits in the queue
C18_Witness ==
    \E r \in Running :
        /\ HandlerOf(req[r].route) = "get_fee_estimates"
        /\ Len(req[r].rpcLog) = 28
        /\ req[r].call # None
        /\ UnitsHeld(r) = 1
        /\ \E q \in Reqs \ {r} :
              /\ HandlerOf(req[q].route) = "get_tip_height"
              /\ req[q].unit = "queued"
              /\ UnitsHeld(q) = 1

\* the response to request r has been returned to the client
Answered(r) == req[r].pc = "done" /\ req[r].resp # None

\* the observation of request r is in the counter and in the histogram,
\* under the labels of its response
Observed(r) ==
    /\ req[r].pc = "done"
    /\ req[r].mw # None
    /\ Count(counter, Labels(req[r].mw, req[r].resp)) >= 1
    /\ Count(histogram, Labels(req[r].mw, req[r].resp)) >= 1

(***************************************************************************)
(* C19: liveness.  When every RPC call issued to the daemon returns, the   *)
(* pool gives free workers to queued units, and ready tasks are polled,    *)
(* every accepted request is eventually answered, and every request that   *)
(* matched a registered route eventually has its observation recorded.     *)
(***************************************************************************)
C19_EveryRequestAnswered ==
    \A r \in Reqs :
        (req[r].pc = "routed") ~> (Answered(r) /\ (req[r].route # NoRoute => Observed(r)))

\* a fee-estimates request and a tip-height request, accepted together, have
\* both been answered and observed
C19_Witness ==
    /\ \A r \in Reqs : Answered(r)
    /\ \E r \in Reqs : HandlerOf(req[r].route) = "get_fee_estimates" /\ Observed(r)
    /\ \E r \in Reqs : HandlerOf(req[r].route) = "get_tip_height" /\ Observed(r)
    /\ Total(counter) = NumReq
====
